---- MODULE Spec2Model ----
(***************************************************************************)
(* Model of the Saturn node metrics exporter (src/main.py): the metric     *)
(* families' add operations, and the three collectors' collect generators  *)
(* as they run under the scrapes of the metrics-serving layer.             *)
(*                                                                         *)
(* JSON objects (Python dicts) are functions whose DOMAIN is the set of    *)
(* keys present; JSON arrays are sequences; JSON null is None.  A node     *)
(* identifier is a sequence of characters.                                 *)
(***************************************************************************)
EXTENDS Integers, Sequences, FiniteSets, TLC

VARIABLES
    node_ids,      \* the frozenset both node-keyed collectors are built with
    utcoffset,     \* the process's local timezone, seconds east of UTC
    pc,            \* per scrape: position in the collect generator
    collector,     \* per scrape: the collector whose collect is running
    response,      \* per scrape: what requests.get returned
    fetches,       \* per scrape: number of requests.get calls made
    idx,           \* per scrape: number of records already iterated
    found,         \* per scrape: the local set of observed identifiers
    metrics,       \* per scrape: the tuple of metric families being filled
    yielded,       \* per scrape: number of families yielded to the caller
    node,          \* family harness: the record handed to one family's add
    family,        \* family harness: the family whose add ran ("" before)
    samples,       \* family harness: what that add call left in the family
    environ,       \* os.environ: the variables set, by name
    files,         \* the file system: the files there are, by path
    main           \* position of __main__

vars == <<node_ids, utcoffset, pc, collector, response, fetches, idx, found,
          metrics, yielded, node, family, samples, environ, files, main>>

startVars == <<environ, files, main>>

scrapeVars == <<pc, collector, response, fetches, idx, found, metrics, yielded>>

harnessVars == <<node, family, samples>>

(***************************************************************************)
(* Bounds of the model.                                                    *)
(***************************************************************************)
NumIds == 3          \* distinct node identifiers
IdLen == 9           \* characters in a node identifier
NumScrapes == 2      \* scrapes that may be in flight at once
MaxStats == 2        \* records in one fetched list
MaxFailures == 3     \* events in one HealthCheckFailures list
MaxBiasKeys == 2     \* keys present in one biases object of the harness
MaxLines == 2        \* lines in the node-identifier file

\* Program constant: the length of the display prefix of an identifier.
IdShortLen == 8

(***************************************************************************)
(* Python values.                                                          *)
(***************************************************************************)
\* JSON null / Python None: a value outside the naturals the numeric fields
\* are drawn from.
None == -1

\* dict.get(k): the value, or None when the key is missing.
Get(d, k) == IF k \in DOMAIN d THEN d[k] ELSE None

Min(a, b) == IF a < b THEN a ELSE b

\* dict(zip(names, values)): pairs up to the shorter of the two.
Zip(names, values) ==
    [k \in {names[i] : i \in 1..Min(Len(names), Len(values))} |->
        values[CHOOSE i \in 1..Min(Len(names), Len(values)) : names[i] = k]]

\* MetricFamily.add_metric(labels, value) of a gauge or a counter: one sample
\* whose labels are dict(zip(self._labelnames, labels)).
Sample(labelnames, labels, value) ==
    [labels |-> Zip(labelnames, labels), value |-> value]

\* InfoMetricFamily.add_metric([], value): one sample of value 1 whose labels
\* are the entries of the value dict.
InfoSample(value) == [labels |-> value, value |-> 1]

\* What an add call does: the samples it appends, or the exception it raises.
Ok(ss) == [err |-> FALSE, samples |-> ss]
Raise == [err |-> TRUE, samples |-> <<>>]

\* d[k1][k2]... succeeds only when every key is there.
Has(d, ks) == ks \subseteq DOMAIN d

_bool_to_str(v) == IF v THEN "true" ELSE "false"

(***************************************************************************)
(* _str_to_timestamp.  A timestamp string "Y-m-dTH:M:S.fZ" is held as the  *)
(* fields strptime reads from it.  strptime yields a naive datetime, whose *)
(* timestamp() is taken in the local timezone of the process.              *)
(***************************************************************************)
\* Days from 1970-01-01 to the civil date y-m-d (proleptic Gregorian).
DaysFromCivil(y, m, d) ==
    LET yy == IF m <= 2 THEN y - 1 ELSE y
        era == yy \div 400
        yoe == yy - era * 400
        mp == (m + 9) % 12
        doy == (153 * mp + 2) \div 5 + d - 1
        doe == yoe * 365 + yoe \div 4 - yoe \div 100 + doy
    IN  era * 146097 + doe - 719468

\* datetime.timestamp() of the naive datetime v read as local time off
\* seconds east of UTC, times 1000.  The product exceeds the 32-bit range,
\* so the milliseconds are held in two decimal limbs: giga * 10^9 + rest.
StrToTimestampAt(v, off) ==
    LET secs == DaysFromCivil(v.year, v.month, v.day) * 86400
                + v.hour * 3600 + v.minute * 60 + v.second - off
    IN  [giga |-> secs \div 1000000,
         rest |-> (secs % 1000000) * 1000 + v.milli]

_str_to_timestamp(v) == StrToTimestampAt(v, utcoffset)

(***************************************************************************)
(* Optional sub-records and lists.  The code reads them with dict.get and  *)
(* tests them by truthiness alone, so None, {} and [] are one value here.  *)
(***************************************************************************)
Empty == <<>>

GetSub(d, k) == IF k \in DOMAIN d THEN d[k] ELSE Empty

Truthy(x) == DOMAIN x # {}

(***************************************************************************)
(* The metric families of the stats collector.  Each add operator takes    *)
(* one node record and gives the samples the call appends to its family.   *)
(***************************************************************************)
_id_short(v) == SubSeq(v, 1, Min(IdShortLen, Len(v)))

NodeInfoMetric_add(n) ==
    IF ~ (/\ Has(n, {"id", "state", "core", "ipAddress", "sunrise", "cassini",
                     "geoloc"})
          /\ Has(n.geoloc, {"region", "city", "country", "countryCode"}))
    THEN Raise
    ELSE
    LET values == [id |-> n.id,
                   id_short |-> _id_short(n.id),
                   state |-> n.state,
                   core |-> _bool_to_str(n.core),
                   ip_address |-> n.ipAddress,
                   sunrise |-> _bool_to_str(n.sunrise),
                   cassini |-> _bool_to_str(n.cassini),
                   geoloc_region |-> n.geoloc.region,
                   geoloc_city |-> n.geoloc.city,
                   geoloc_country |-> n.geoloc.country,
                   geoloc_country_code |-> n.geoloc.countryCode]
        speedtest == GetSub(n, "speedtest")
    IN  IF ~ Truthy(speedtest) THEN Ok(<<InfoSample(values)>>)
        ELSE IF ~ (/\ Has(speedtest, {"isp", "server"})
                   /\ Has(speedtest.server, {"location", "country"}))
        THEN Raise
        ELSE Ok(<<InfoSample(values @@
                    [sppedtest_isp |-> speedtest.isp,
                     sppedtest_server_location |-> speedtest.server.location,
                     sppedtest_server_country |-> speedtest.server.country])>>)

NodeInfoMetric_add_inactive(node_id) ==
    InfoSample([id |-> node_id,
                id_short |-> _id_short(node_id),
                state |-> "inactive"])

\* str.split("_")[0]: the characters before the first underscore.
RECURSIVE SplitFirst(_)
SplitFirst(v) ==
    IF v = <<>> \/ Head(v) = "_" THEN <<>>
    ELSE <<Head(v)>> \o SplitFirst(Tail(v))

NodeVersionMetric_add(n) ==
    IF ~ Has(n, {"id", "version"}) THEN Raise
    ELSE Ok(<<Sample(<<"id">>, <<n.id>>, SplitFirst(n.version))>>)

NodeWeightMetric_add(n) ==
    IF ~ Has(n, {"id", "bias"}) THEN Raise
    ELSE Ok(<<Sample(<<"id">>, <<n.id>>, n.bias)>>)

_BIASES ==
    << <<"ageBias", "age">>,
       <<"ttfbBias", "ttfb">>,
       <<"randomBias", "random">>,
       <<"uptimeBias", "uptime">>,
       <<"speedtestBias", "speedtest">> >>

_PENALTIES ==
    << <<"speedPenalty", "speed">>,
       <<"cpuLoadPenalty", "cpu_load">>,
       <<"errorRatioPenalty", "error_ratio">>,
       <<"oldVersionPenalty", "old_version">>,
       <<"cacheHitRatioPenalty", "cache_hit_ratio">>,
       <<"dupCacheMissRatioPenalty", "dup_cache_miss_ratio">>,
       <<"healthCheckFailuresPenalty", "health_check_failures">> >>

\* The test as a truthiness test would make it.
IsTruthyValue(v) == v # None /\ v # 0

\* The test both fan-out loops apply to node["biases"].get(k).
IsNotNone(v) == v # None

\* for k, v in table.items(): x = node["biases"].get(k); if x is not None:
\* add_metric([node["id"], v], x).  Entries of the table from the i-th on.
RECURSIVE KindFanOut(_, _, _)
KindFanOut(table, n, i) ==
    IF i > Len(table) THEN <<>>
    ELSE LET x == Get(n.biases, table[i][1])
         IN  (IF IsNotNone(x)
              THEN <<Sample(<<"id", "kind">>, <<n.id, table[i][2]>>, x)>>
              ELSE <<>>) \o KindFanOut(table, n, i + 1)

\* node["biases"] is read on every turn of the loop, node["id"] only on a
\* turn that emits.
KindAdd(table, n) ==
    IF ~ Has(n, {"biases"}) THEN Raise
    ELSE IF /\ ~ Has(n, {"id"})
            /\ \E i \in 1..Len(table) : IsNotNone(Get(n.biases, table[i][1]))
    THEN Raise
    ELSE Ok(KindFanOut(table, n, 1))

NodeBiasMetric_add(n) == KindAdd(_BIASES, n)

NodePenaltyMetric_add(n) == KindAdd(_PENALTIES, n)

\* The four weighted-ratio families: one optional key of node["biases"].
WeightedAdd(n, k) ==
    IF ~ Has(n, {"biases"}) THEN Raise
    ELSE LET v == Get(n.biases, k)
         IN  IF v = None THEN Ok(<<>>)
             ELSE IF ~ Has(n, {"id"}) THEN Raise
             ELSE Ok(<<Sample(<<"id">>, <<n.id>>, v)>>)

NodeWeightedTTFBMetric_add(n) == WeightedAdd(n, "weightedTtfb")
NodeWeightedHitsRatioMetric_add(n) == WeightedAdd(n, "weightedHitsRatio")
NodeWeightedErrorsRatioMetric_add(n) == WeightedAdd(n, "weightedErrorsRatio")
NodeWeightedDupCacheMissRatioMetric_add(n) ==
    WeightedAdd(n, "weightedDupCacheMissRatio")

NodeLastRegistrationMetric_add(n) ==
    IF ~ Has(n, {"id", "lastRegistration"}) THEN Raise
    ELSE Ok(<<Sample(<<"id">>, <<n.id>>, _str_to_timestamp(n.lastRegistration))>>)

NodeCreationMetric_add(n) ==
    IF ~ Has(n, {"id", "createdAt"}) THEN Raise
    ELSE Ok(<<Sample(<<"id">>, <<n.id>>, _str_to_timestamp(n.createdAt))>>)

\* The families that read node[sub][k] with no presence check.
NestedAdd(n, sub, k) ==
    IF ~ (Has(n, {"id", sub}) /\ Has(n[sub], {k})) THEN Raise
    ELSE Ok(<<Sample(<<"id">>, <<n.id>>, n[sub][k])>>)

NodeDiskTotalMetric_add(n) == NestedAdd(n, "diskStats", "totalDiskMB")
NodeDiskUsedMetric_add(n) == NestedAdd(n, "diskStats", "usedDiskMB")
NodeDiskAvailableMetric_add(n) == NestedAdd(n, "diskStats", "availableDiskMB")
NodeMemoryTotalMetric_add(n) == NestedAdd(n, "memoryStats", "totalMemoryKB")
NodeMemoryFreeMetric_add(n) == NestedAdd(n, "memoryStats", "freeMemoryKB")
NodeMemoryAvailableMetric_add(n) ==
    NestedAdd(n, "memoryStats", "availableMemoryKB")
NodeCPUNumberMetric_add(n) == NestedAdd(n, "cpuStats", "numCPUs")
NodeSentBytesTotalMetric_add(n) == NestedAdd(n, "nicStats", "bytesSent")
NodeReceivedBytesTotalMetric_add(n) == NestedAdd(n, "nicStats", "bytesReceived")

NodeCPULoadAvgMetric_add(n) ==
    IF ~ (/\ Has(n, {"id", "cpuStats"})
          /\ Has(n.cpuStats, {"loadAvgs"})
          /\ Len(n.cpuStats.loadAvgs) >= 1)
    THEN Raise
    ELSE Ok(<<Sample(<<"id">>, <<n.id>>, n.cpuStats.loadAvgs[1])>>)

\* The three speedtest families: emitted when the sub-record is truthy.
SpeedtestAdd(n, sub, k) ==
    LET speedtest == GetSub(n, "speedtest")
    IN  IF ~ Truthy(speedtest) THEN Ok(<<>>)
        ELSE IF ~ (/\ Has(speedtest, {sub})
                   /\ Has(speedtest[sub], {k})
                   /\ Has(n, {"id"}))
        THEN Raise
        ELSE Ok(<<Sample(<<"id">>, <<n.id>>, speedtest[sub][k])>>)

NodeSpeedtestUploadBandwidthMetric_add(n) ==
    SpeedtestAdd(n, "upload", "bandwidth")
NodeSpeedtestDownloadBandwidthMetric_add(n) ==
    SpeedtestAdd(n, "download", "bandwidth")
NodeSpeedtestPingLatencyMetric_add(n) == SpeedtestAdd(n, "ping", "latency")
\* The quantiles of the loop, each as the exact decimal its literal denotes
\* and the text str(q) gives for it.
Quantiles ==
    << [num |-> 1, den |-> 100, str |-> "0.01"],
       [num |-> 5, den |-> 100, str |-> "0.05"],
       [num |-> 5, den |-> 10, str |-> "0.5"],
       [num |-> 95, den |-> 100, str |-> "0.95"],
       [num |-> 99, den |-> 100, str |-> "0.99"] >>

\* int(q * 100): for these five literals the binary64 product is the exact
\* integer, so truncation gives the decimal's hundredths.
IntTimes100(q) == (q.num * 100) \div q.den

\* f"p{p}_1h"
QuantileKey(p) ==
    CASE p = 1 -> "p1_1h"
      [] p = 5 -> "p5_1h"
      [] p = 50 -> "p50_1h"
      [] p = 95 -> "p95_1h"
      [] p = 99 -> "p99_1h"
      [] OTHER -> "p_1h"

\* The loop as skip-and-continue would make it.
RECURSIVE QuantileLoopSkipping(_, _, _)
QuantileLoopSkipping(n, ttfb, i) ==
    IF i > Len(Quantiles) THEN <<>>
    ELSE LET k == QuantileKey(IntTimes100(Quantiles[i]))
         IN  (IF ~ Has(n, {"id"}) \/ ~ Has(ttfb, {k}) THEN <<>>
              ELSE <<Sample(<<"id", "quantile">>,
                            <<n.id, Quantiles[i].str>>, ttfb[k])>>)
             \o QuantileLoopSkipping(n, ttfb, i + 1)

\* The loop over the quantiles from the i-th on: a missing key (of the node
\* or of ttfb) raises KeyError, which the loop answers by returning.
RECURSIVE QuantileLoop(_, _, _)
QuantileLoop(n, ttfb, i) ==
    IF i > Len(Quantiles) THEN <<>>
    ELSE LET k == QuantileKey(IntTimes100(Quantiles[i]))
         IN  IF ~ Has(n, {"id"}) \/ ~ Has(ttfb, {k}) THEN <<>>
             ELSE <<Sample(<<"id", "quantile">>,
                           <<n.id, Quantiles[i].str>>, ttfb[k])>>
                  \o QuantileLoop(n, ttfb, i + 1)

NodeResponseDurationMetric_add(n) ==
    LET ttfb == GetSub(n, "ttfbStats")
    IN  IF ~ Truthy(ttfb) THEN Ok(<<>>)
        ELSE Ok(QuantileLoop(n, ttfb, 1))

\* The fields the try block reads before anything is emitted.
RequestFields == {"reqs_served_1h", "hits_1h", "errors_1h", "slow_hits_1h"}

\* The family as emitting each count on its own would make it.
NodeRequestsMetric_add_each(n) ==
    LET ttfb == GetSub(n, "ttfbStats")
        one(k, result) ==
            IF Has(ttfb, {k})
            THEN <<Sample(<<"id", "result">>, <<n.id, result>>, ttfb[k])>>
            ELSE <<>>
    IN  IF ~ Truthy(ttfb) THEN Ok(<<>>)
        ELSE Ok(one("reqs_served_1h", "ok") \o one("hits_1h", "ok_hit")
                \o one("errors_1h", "error")
                \o one("slow_hits_1h", "ok_slow_hit"))

NodeRequestsMetric_add(n) ==
    LET ttfb == GetSub(n, "ttfbStats")
    IN  IF ~ Truthy(ttfb) THEN Ok(<<>>)
        ELSE IF ~ Has(ttfb, RequestFields) THEN Ok(<<>>)
        ELSE IF ~ Has(n, {"id"}) THEN Raise
        ELSE Ok(<< Sample(<<"id", "result">>, <<n.id, "ok">>,
                          ttfb["reqs_served_1h"]),
                   Sample(<<"id", "result">>, <<n.id, "ok_hit">>,
                          ttfb["hits_1h"]),
                   Sample(<<"id", "result">>, <<n.id, "error">>,
                          ttfb["errors_1h"]),
                   Sample(<<"id", "result">>, <<n.id, "ok_slow_hit">>,
                          ttfb["slow_hits_1h"]) >>)

\* The count as errors[kind] = 1 would make it.
IncrementLost(errors, kind) ==
    IF \E i \in 1..Len(errors) : errors[i][1] = kind
    THEN errors
    ELSE Append(errors, <<kind, 1>>)

\* errors[kind] += 1 on the insertion-ordered defaultdict errors, held as a
\* sequence of <<kind, count>> pairs.
Increment(errors, kind) ==
    IF \E i \in 1..Len(errors) : errors[i][1] = kind
    THEN [i \in 1..Len(errors) |->
            IF errors[i][1] = kind THEN <<kind, errors[i][2] + 1>>
            ELSE errors[i]]
    ELSE Append(errors, <<kind, 1>>)

\* for f in failures: errors[f["error"]] += 1, from the i-th event on.
RECURSIVE CountErrors(_, _, _)
CountErrors(failures, errors, i) ==
    IF i > Len(failures) THEN errors
    ELSE CountErrors(failures, Increment(errors, failures[i].error), i + 1)

NodeHealthCheckFailuresMetric_add(n) ==
    LET failures == GetSub(n, "HealthCheckFailures")
    IN  IF ~ Has(n, {"id"}) THEN Raise
        ELSE IF ~ Truthy(failures)
        THEN Ok(<<Sample(<<"id", "error">>, <<n.id>>, 0)>>)
        ELSE IF \E i \in 1..Len(failures) : ~ Has(failures[i], {"error"})
        THEN Raise
        ELSE LET errors == CountErrors(failures, <<>>, 1)
             IN  Ok([i \in 1..Len(errors) |->
                       Sample(<<"id", "error">>, <<n.id, errors[i][1]>>,
                              errors[i][2])])

(***************************************************************************)
(* The metric families of the earnings collector.                          *)
(***************************************************************************)
NodePayoutInfoMetric_add(n) ==
    IF ~ Has(n, {"nodeId", "payoutStatus"}) THEN Raise
    ELSE Ok(<<InfoSample([id |-> n.nodeId, status |-> n.payoutStatus])>>)

\* The optional-field test as a truthiness test would make it.
OptionalAddTruthy(n, k) ==
    LET v == Get(n, k)
    IN  IF v = None \/ v = 0 THEN Ok(<<>>)
        ELSE IF ~ Has(n, {"nodeId"}) THEN Raise
        ELSE Ok(<<Sample(<<"id">>, <<n.nodeId>>, v)>>)

\* The four families that read one optional field with dict.get.
OptionalAdd(n, k) ==
    LET v == Get(n, k)
    IN  IF v = None THEN Ok(<<>>)
        ELSE IF ~ Has(n, {"nodeId"}) THEN Raise
        ELSE Ok(<<Sample(<<"id">>, <<n.nodeId>>, v)>>)

NodeEstimatedEarningsMetric_add(n) == OptionalAdd(n, "filAmount")
NodeUptimeCompletionMetric_add(n) == OptionalAdd(n, "uptimeCompletion")
NodeRetrievalsMetric_add(n) == OptionalAdd(n, "numRequests")
NodeBandwidthServedMetric_add(n) == OptionalAdd(n, "numBytes")

(***************************************************************************)
(* The metric families of the requirements collector: each reads one field *)
(* of the requirements record with no presence check, and has no labels.   *)
(***************************************************************************)
\* The read as a presence check would make it.
RequiredAddLenient(requirements, k) ==
    IF ~ Has(requirements, {k}) THEN Ok(<<>>)
    ELSE Ok(<<Sample(<<>>, <<>>, requirements[k])>>)

RequiredAdd(requirements, k) ==
    IF ~ Has(requirements, {k}) THEN Raise
    ELSE Ok(<<Sample(<<>>, <<>>, requirements[k])>>)

NodeRequirementsMinCPUCoresMetric_add(r) == RequiredAdd(r, "minCPUCores")
NodeRequirementsMinMemoryMetric_add(r) == RequiredAdd(r, "minMemoryGB")
NodeRequirementsMinUploadSpeedMetric_add(r) ==
    RequiredAdd(r, "minUploadSpeedMbps")
NodeRequirementsMinDownloadSpeedMetric_add(r) ==
    RequiredAdd(r, "minDownloadSpeedMbps")
NodeRequirementsMinDiskMetric_add(r) == RequiredAdd(r, "minDiskGB")
NodeRequirementsLastVersionMetric_add(r) == RequiredAdd(r, "lastVersion")
NodeRequirementsMinVersionMetric_add(r) == RequiredAdd(r, "minVersion")
(***************************************************************************)
(* The families of each collector, in the order of its metrics tuple.      *)
(***************************************************************************)
StatsFamilies ==
    << "NodeInfoMetric", "NodeVersionMetric", "NodeWeightMetric",
       "NodeBiasMetric", "NodePenaltyMetric", "NodeWeightedTTFBMetric",
       "NodeWeightedHitsRatioMetric", "NodeWeightedErrorsRatioMetric",
       "NodeWeightedDupCacheMissRatioMetric", "NodeLastRegistrationMetric",
       "NodeCreationMetric", "NodeDiskTotalMetric", "NodeDiskUsedMetric",
       "NodeDiskAvailableMetric", "NodeMemoryTotalMetric",
       "NodeMemoryFreeMetric", "NodeMemoryAvailableMetric",
       "NodeCPUNumberMetric", "NodeCPULoadAvgMetric",
       "NodeResponseDurationMetric", "NodeRequestsMetric",
       "NodeHealthCheckFailuresMetric", "NodeSentBytesTotalMetric",
       "NodeReceivedBytesTotalMetric", "NodeSpeedtestUploadBandwidthMetric",
       "NodeSpeedtestDownloadBandwidthMetric",
       "NodeSpeedtestPingLatencyMetric" >>

EarningsFamilies ==
    << "NodePayoutInfoMetric", "NodeEstimatedEarningsMetric",
       "NodeUptimeCompletionMetric", "NodeRetrievalsMetric",
       "NodeBandwidthServedMetric" >>

RequirementsFamilies ==
    << "NodeRequirementsMinCPUCoresMetric", "NodeRequirementsMinMemoryMetric",
       "NodeRequirementsMinUploadSpeedMetric",
       "NodeRequirementsMinDownloadSpeedMetric",
       "NodeRequirementsMinDiskMetric", "NodeRequirementsLastVersionMetric",
       "NodeRequirementsMinVersionMetric" >>

\* m.add(record) for the family named f.
Add(f, n) ==
    CASE f = "NodeInfoMetric" -> NodeInfoMetric_add(n)
      [] f = "NodeVersionMetric" -> NodeVersionMetric_add(n)
      [] f = "NodeWeightMetric" -> NodeWeightMetric_add(n)
      [] f = "NodeBiasMetric" -> NodeBiasMetric_add(n)
      [] f = "NodePenaltyMetric" -> NodePenaltyMetric_add(n)
      [] f = "NodeWeightedTTFBMetric" -> NodeWeightedTTFBMetric_add(n)
      [] f = "NodeWeightedHitsRatioMetric" -> NodeWeightedHitsRatioMetric_add(n)
      [] f = "NodeWeightedErrorsRatioMetric" ->
            NodeWeightedErrorsRatioMetric_add(n)
      [] f = "NodeWeightedDupCacheMissRatioMetric" ->
            NodeWeightedDupCacheMissRatioMetric_add(n)
      [] f = "NodeLastRegistrationMetric" -> NodeLastRegistrationMetric_add(n)
      [] f = "NodeCreationMetric" -> NodeCreationMetric_add(n)
      [] f = "NodeDiskTotalMetric" -> NodeDiskTotalMetric_add(n)
      [] f = "NodeDiskUsedMetric" -> NodeDiskUsedMetric_add(n)
      [] f = "NodeDiskAvailableMetric" -> NodeDiskAvailableMetric_add(n)
      [] f = "NodeMemoryTotalMetric" -> NodeMemoryTotalMetric_add(n)
      [] f = "NodeMemoryFreeMetric" -> NodeMemoryFreeMetric_add(n)
      [] f = "NodeMemoryAvailableMetric" -> NodeMemoryAvailableMetric_add(n)
      [] f = "NodeCPUNumberMetric" -> NodeCPUNumberMetric_add(n)
      [] f = "NodeCPULoadAvgMetric" -> NodeCPULoadAvgMetric_add(n)
      [] f = "NodeResponseDurationMetric" -> NodeResponseDurationMetric_add(n)
      [] f = "NodeRequestsMetric" -> NodeRequestsMetric_add(n)
      [] f = "NodeHealthCheckFailuresMetric" ->
            NodeHealthCheckFailuresMetric_add(n)
      [] f = "NodeSentBytesTotalMetric" -> NodeSentBytesTotalMetric_add(n)
      [] f = "NodeReceivedBytesTotalMetric" ->
            NodeReceivedBytesTotalMetric_add(n)
      [] f = "NodeSpeedtestUploadBandwidthMetric" ->
            NodeSpeedtestUploadBandwidthMetric_add(n)
      [] f = "NodeSpeedtestDownloadBandwidthMetric" ->
            NodeSpeedtestDownloadBandwidthMetric_add(n)
      [] f = "NodeSpeedtestPingLatencyMetric" ->
            NodeSpeedtestPingLatencyMetric_add(n)
      [] f = "NodePayoutInfoMetric" -> NodePayoutInfoMetric_add(n)
      [] f = "NodeEstimatedEarningsMetric" -> NodeEstimatedEarningsMetric_add(n)
      [] f = "NodeUptimeCompletionMetric" -> NodeUptimeCompletionMetric_add(n)
      [] f = "NodeRetrievalsMetric" -> NodeRetrievalsMetric_add(n)
      [] f = "NodeBandwidthServedMetric" -> NodeBandwidthServedMetric_add(n)
      [] f = "NodeRequirementsMinCPUCoresMetric" ->
            NodeRequirementsMinCPUCoresMetric_add(n)
      [] f = "NodeRequirementsMinMemoryMetric" ->
            NodeRequirementsMinMemoryMetric_add(n)
      [] f = "NodeRequirementsMinUploadSpeedMetric" ->
            NodeRequirementsMinUploadSpeedMetric_add(n)
      [] f = "NodeRequirementsMinDownloadSpeedMetric" ->
            NodeRequirementsMinDownloadSpeedMetric_add(n)
      [] f = "NodeRequirementsMinDiskMetric" ->
            NodeRequirementsMinDiskMetric_add(n)
      [] f = "NodeRequirementsLastVersionMetric" ->
            NodeRequirementsLastVersionMetric_add(n)
      [] f = "NodeRequirementsMinVersionMetric" ->
            NodeRequirementsMinVersionMetric_add(n)

(***************************************************************************)
(* The inputs the model draws.                                             *)
(***************************************************************************)
\* Identifiers differing in their last character only, so that all of them
\* share one short id.
MkId(i) == [k \in 1..IdLen |-> IF k = IdLen THEN i ELSE 0]

Ids == {MkId(i) : i \in 1..NumIds}

Timestamp ==
    [year |-> 2023, month |-> 1, day |-> 1, hour |-> 0, minute |-> 0,
     second |-> 0, milli |-> 0]

\* "2023-01-01T00:00:00.000Z", "2024-02-29T23:59:59.999Z" and
\* "2000-03-01T12:30:45.500Z".
Timestamps ==
    {Timestamp,
     [year |-> 2024, month |-> 2, day |-> 29, hour |-> 23, minute |-> 59,
      second |-> 59, milli |-> 999],
     [year |-> 2000, month |-> 3, day |-> 1, hour |-> 12, minute |-> 30,
      second |-> 45, milli |-> 500]}

\* A stats record with every field the unconditional families read, and
\* none of the optional sub-records.
BaseNode(id) ==
    [id |-> id, state |-> "active", core |-> FALSE, ipAddress |-> "10.0.0.1",
     sunrise |-> TRUE, cassini |-> FALSE,
     geoloc |-> [region |-> "r", city |-> "c", country |-> "C",
                 countryCode |-> "CC"],
     version |-> <<"1", ".", "2", "_", "a", "_", "b">>,
     bias |-> 5,
     biases |-> [ageBias |-> 1, speedPenalty |-> 0, weightedTtfb |-> 3],
     lastRegistration |-> Timestamp, createdAt |-> Timestamp,
     diskStats |-> [totalDiskMB |-> 9, usedDiskMB |-> 4, availableDiskMB |-> 5],
     memoryStats |-> [totalMemoryKB |-> 8, freeMemoryKB |-> 2,
                      availableMemoryKB |-> 6],
     cpuStats |-> [numCPUs |-> 4, loadAvgs |-> <<1, 2, 3>>],
     nicStats |-> [bytesSent |-> 7, bytesReceived |-> 3]]

Speedtest ==
    [isp |-> "isp", server |-> [location |-> "l", country |-> "C"],
     upload |-> [bandwidth |-> 10], download |-> [bandwidth |-> 20],
     ping |-> [latency |-> 30]]

\* d with key k set to v.
With(d, k, v) == [x \in DOMAIN d \cup {k} |-> IF x = k THEN v ELSE d[x]]

TtfbKeys ==
    {"p1_1h", "p5_1h", "p50_1h", "p95_1h", "p99_1h"} \cup RequestFields

TtfbValue(k) ==
    CASE k = "p1_1h" -> 1 [] k = "p5_1h" -> 5 [] k = "p50_1h" -> 50
      [] k = "p95_1h" -> 95 [] k = "p99_1h" -> 99
      [] k = "reqs_served_1h" -> 40 [] k = "hits_1h" -> 30
      [] k = "errors_1h" -> 0 [] k = "slow_hits_1h" -> 2

\* Every time-to-first-byte sub-record: any subset of its nine fields.
TtfbRecords == {[k \in S |-> TtfbValue(k)] : S \in SUBSET TtfbKeys}

RECURSIVE SeqsUpTo(_, _)
SeqsUpTo(S, n) ==
    IF n = 0 THEN {<<>>}
    ELSE LET shorter == SeqsUpTo(S, n - 1)
         IN  shorter \cup {Append(q, x) : q \in shorter, x \in S}

FailureEvents == {[error |-> "timeout"], [error |-> "dns"], [reason |-> "x"]}

FailureLists == SeqsUpTo(FailureEvents, MaxFailures)

BiasKeys == {_BIASES[i][1] : i \in 1..Len(_BIASES)}
PenaltyKeys == {_PENALTIES[i][1] : i \in 1..Len(_PENALTIES)}

BiasesKeys == BiasKeys \cup PenaltyKeys \cup {"weightedTtfb", "unknownBias"}

BiasValues == {None, 0, 1}

\* The biases objects: up to MaxBiasKeys keys with any values, and the
\* objects with every key present.
BiasesObjects ==
    UNION {[S -> BiasValues] :
             S \in {T \in SUBSET BiasesKeys : Cardinality(T) <= MaxBiasKeys}}
    \cup {[k \in BiasesKeys |-> v] : v \in BiasValues}

HarnessNodes ==
    {BaseNode(MkId(1))}
    \cup {With(BaseNode(MkId(1)), "ttfbStats", t) : t \in TtfbRecords}
    \cup {With(BaseNode(MkId(1)), "HealthCheckFailures", l) : l \in FailureLists}
    \cup {With(BaseNode(MkId(1)), "biases", b) : b \in BiasesObjects}
    \cup {With(BaseNode(MkId(1)), "speedtest", Speedtest)}
    \cup {With(With(BaseNode(MkId(1)), "lastRegistration", t), "createdAt", u) :
              t, u \in Timestamps}
(***************************************************************************)
(* State after construction: the collectors hold their allow-list and no   *)
(* scrape is running.                                                      *)
(***************************************************************************)
Scrapes == 1..NumScrapes

\* The name of the environment variable, and the path it is set to here.
EnvName == "SATURN_PROMETHEUS_EXPORTER_NODES"
NodesPath == "nodes.txt"

\* Space and newline, as character codes; identifier characters are below.
Whitespace == {32, 10}

\* line.strip()
Strip(line) ==
    LET keep == {i \in 1..Len(line) : line[i] \notin Whitespace}
    IN  IF keep = {} THEN <<>>
        ELSE SubSeq(line,
                    CHOOSE i \in keep : \A j \in keep : i <= j,
                    CHOOSE i \in keep : \A j \in keep : j <= i)

\* frozenset([line.strip() for line in f])
ReadLines(f) == {Strip(f[i]) : i \in 1..Len(f)}

\* The file that lists the identifiers ids, one per line.
FileOf(ids) ==
    LET order == CHOOSE q \in [1..Cardinality(ids) -> ids] :
                     \A i, j \in 1..Cardinality(ids) : i # j => q[i] # q[j]
    IN  [i \in 1..Cardinality(ids) |-> order[i] \o <<10>>]

\* __main__ has registered collectors built with ids and is serving:
\* the variable was unset for an empty ids, and named a file listing ids
\* otherwise.
Serving(ids) ==
    /\ main = "serving"
    /\ environ = IF ids = {} THEN Empty
                 ELSE [k \in {EnvName} |-> NodesPath]
    /\ files = IF ids = {} THEN Empty
               ELSE [p \in {NodesPath} |-> FileOf(ids)]

UtcOffsets == {0, 3600, 0 - 18000}

NoScrape ==
    /\ pc = [s \in Scrapes |-> "idle"]
    /\ collector = [s \in Scrapes |-> ""]
    /\ response = [s \in Scrapes |-> Empty]
    /\ fetches = [s \in Scrapes |-> 0]
    /\ idx = [s \in Scrapes |-> 0]
    /\ found = [s \in Scrapes |-> {}]
    /\ metrics = [s \in Scrapes |-> <<>>]
    /\ yielded = [s \in Scrapes |-> 0]

NoHarness ==
    /\ node = Empty
    /\ family = ""
    /\ samples = Ok(<<>>)

(***************************************************************************)
(* The family harness: one freshly constructed family of the stats         *)
(* collector is handed one node record.                                    *)
(***************************************************************************)
Range(q) == {q[i] : i \in 1..Len(q)}

InitFamilies ==
    /\ node_ids = {}
    /\ Serving(node_ids)
    /\ utcoffset \in UtcOffsets
    /\ NoScrape
    /\ node \in HarnessNodes
    /\ family = ""
    /\ samples = Ok(<<>>)

\* m = Family(); m.add(node)
FamilyAdd(f) ==
    /\ family = ""
    /\ family' = f
    /\ samples' = Add(f, node)
    /\ UNCHANGED <<startVars, node_ids, utcoffset, scrapeVars, node>>

NextFamilies == \E f \in Range(StatsFamilies) : FamilyAdd(f)

SpecFamilies == InitFamilies /\ [][NextFamilies]_vars

(***************************************************************************)
(* The collectors.  A scrape calls one collector's collect generator:      *)
(* requests.get, r.json(), the projection of the decoded payload onto      *)
(* freshly constructed families, and then one yield per family.  A raised  *)
(* exception ends the generator: the scrape has failed.                    *)
(***************************************************************************)
\* What requests.get returns: the status line, whether the body parses as
\* JSON, and the value it parses to.
Response(status, parses, value) ==
    [status |-> status, parses |-> parses, value |-> value]

\* The bodies a collector is answered with under a failing status: one that
\* is no JSON, a JSON error object, and what a success would have carried.
FailingResponses(payload) ==
    {Response(503, FALSE, Empty),
     Response(503, TRUE, [error |-> "unavailable"]),
     Response(503, TRUE, payload)}

\* Records of the stats endpoint: for every identifier the plain record,
\* and for the first one also a record with every optional sub-record and
\* a record that lacks a field an unconditional family reads.
FullNode(id) ==
    With(With(With(BaseNode(id), "speedtest", Speedtest),
              "ttfbStats", [k \in TtfbKeys |-> TtfbValue(k)]),
         "HealthCheckFailures", <<[error |-> "timeout"], [error |-> "dns"]>>)

Without(d, k) == [x \in DOMAIN d \ {k} |-> d[x]]

StatsRecords ==
    {BaseNode(id) : id \in Ids}
    \cup {FullNode(MkId(1)), Without(BaseNode(MkId(1)), "version")}

\* Bodies of the stats endpoint: the payload, a JSON object without it, and
\* a body that is no JSON.
StatsResponses ==
    {Response(200, TRUE, [nodes |-> l]) : l \in SeqsUpTo(StatsRecords, MaxStats)}
    \cup {Response(200, TRUE, [error |-> "unavailable"]),
          Response(200, FALSE, Empty)}
    \cup FailingResponses([nodes |-> <<BaseNode(MkId(1))>>])

EarningsFields ==
    {"payoutStatus", "filAmount", "uptimeCompletion", "numRequests", "numBytes"}

EarningsValue(k) ==
    CASE k = "payoutStatus" -> "valid"
      [] k = "filAmount" -> 0
      [] k = "uptimeCompletion" -> 1
      [] k = "numRequests" -> 12
      [] k = "numBytes" -> 34

EarningsNode(id, S) ==
    [k \in S \cup {"nodeId"} |-> IF k = "nodeId" THEN id ELSE EarningsValue(k)]

\* The record of the first identifier with any subset of its fields, or with
\* a null amount; the other identifiers' records complete.
EarningsRecords ==
    {EarningsNode(MkId(1), S) : S \in SUBSET EarningsFields}
    \cup {With(EarningsNode(MkId(1), EarningsFields), "filAmount", None)}
    \cup {EarningsNode(id, EarningsFields) : id \in Ids}

CompleteEarnings == {EarningsNode(id, EarningsFields) : id \in Ids}

\* Lists of earnings records: any record first, complete records after it.
EarningsLists ==
    {<<>>} \cup {<<r>> \o l : r \in EarningsRecords,
                              l \in SeqsUpTo(CompleteEarnings, MaxStats - 1)}

EarningsResponses ==
    {Response(200, TRUE, [perNodeMetrics |-> l]) : l \in EarningsLists}
    \cup {Response(200, TRUE, [error |-> "unavailable"]),
          Response(200, FALSE, Empty)}
    \cup FailingResponses(
            [perNodeMetrics |-> <<EarningsNode(MkId(1), EarningsFields)>>])

RequirementsFields ==
    {"minCPUCores", "minMemoryGB", "minUploadSpeedMbps",
     "minDownloadSpeedMbps", "minDiskGB", "lastVersion", "minVersion"}

RequirementsValue(k) ==
    CASE k = "minCPUCores" -> 6
      [] k = "minMemoryGB" -> 32
      [] k = "minUploadSpeedMbps" -> 100
      [] k = "minDownloadSpeedMbps" -> 101
      [] k = "minDiskGB" -> 1000
      [] k = "lastVersion" -> 540
      [] k = "minVersion" -> 530

\* The flat requirements object with any subset of its seven fields.
RequirementsResponses ==
    {Response(200, TRUE, [k \in S |-> RequirementsValue(k)]) :
        S \in SUBSET RequirementsFields}
    \cup {Response(200, FALSE, Empty)}
    \cup FailingResponses([k \in RequirementsFields |-> RequirementsValue(k)])

\* The metrics tuple right after the constructors ran: no samples.
Fresh(names) == [i \in 1..Len(names) |-> [name |-> names[i], samples |-> <<>>]]

\* for m in metrics: m.add(record) -- whether a call raises, and the tuple
\* once every call returned.
AnyRaises(ms, n) == \E i \in 1..Len(ms) : Add(ms[i].name, n).err

AddAll(ms, n) ==
    [i \in 1..Len(ms) |->
        [name |-> ms[i].name,
         samples |-> ms[i].samples \o Add(ms[i].name, n).samples]]

\* The filter without its test for the empty allow-list.
SkippedWhenEmpty(ids, n, key) == n[key] \notin ids

\* if self._node_ids and node[key] not in self._node_ids: continue
Skipped(ids, n, key) == ids # {} /\ n[key] \notin ids

\* The inactive set as forgetting the observed identifiers would make it.
UnmatchedAll(ids, fnd) == ids

\* self._node_ids - found
Unmatched(ids, fnd) == ids \ fnd

\* The orders in which a for loop may visit the set S.
Orders(S) ==
    {q \in [1..Cardinality(S) -> S] :
        \A i, j \in 1..Cardinality(S) : i # j => q[i] # q[j]}

\* info.add_inactive(i) for each i of order, info being the first family.
AddInactive(ms, order) ==
    [i \in 1..Len(ms) |->
        IF i = 1
        THEN [name |-> ms[i].name,
              samples |-> ms[i].samples \o
                  [j \in 1..Len(order) |->
                      NodeInfoMetric_add_inactive(order[j])]]
        ELSE ms[i]]

\* The generator is left by an exception: nothing more is yielded.
Fail(s) ==
    /\ pc' = [pc EXCEPT ![s] = "failed"]
    /\ UNCHANGED <<idx, found, metrics, yielded>>

\* A new scrape is served in the first slot that is free.
FirstFree(s) == pc[s] = "idle" /\ \A t \in 1..(s - 1) : pc[t] # "idle"

\* collect(): r = requests.get(url, ...) -- a network error raises, anything
\* the server answers is returned, whatever its status.
Fetch(s, c, responses) ==
    /\ FirstFree(s)
    /\ collector' = [collector EXCEPT ![s] = c]
    /\ fetches' = [fetches EXCEPT ![s] = @ + 1]
    /\ \/ /\ \E r \in responses : response' = [response EXCEPT ![s] = r]
          /\ pc' = [pc EXCEPT ![s] = "fetched"]
       \/ /\ response' = response
          /\ pc' = [pc EXCEPT ![s] = "failed"]
    /\ UNCHANGED <<startVars, node_ids, utcoffset, idx, found, metrics, yielded,
                   harnessVars>>

StatsFetch(s) == Fetch(s, "StatsCollector", StatsResponses)

EarningsFetch(s) ==
    Fetch(s, "EarningsAndRetrievalsCollector", EarningsResponses)

RequirementsFetch(s) ==
    Fetch(s, "RequirementsCollector", RequirementsResponses)

\* The key of the payload the node-keyed collectors iterate over, and the
\* key of a record that holds the node's identifier.
PayloadKey(c) == IF c = "StatsCollector" THEN "nodes" ELSE "perNodeMetrics"

IdKey(c) == IF c = "StatsCollector" THEN "id" ELSE "nodeId"

FamiliesOf(c) ==
    CASE c = "StatsCollector" -> StatsFamilies
      [] c = "EarningsAndRetrievalsCollector" -> EarningsFamilies
      [] c = "RequirementsCollector" -> RequirementsFamilies

\* The list the projection of scrape s iterates over: stats["nodes"] or
\* earnings["perNodeMetrics"] of the decoded body.
Records(s) == response[s].value[PayloadKey(collector[s])]

\* stats = r.json(); the call of the projection on stats["nodes"], up to
\* the loop: the families are constructed and found is a new empty set.
Decode(s) ==
    /\ pc[s] = "fetched"
    /\ collector[s] # "RequirementsCollector"
    /\ IF /\ response[s].parses
          /\ PayloadKey(collector[s]) \in DOMAIN response[s].value
       THEN /\ idx' = [idx EXCEPT ![s] = 0]
            /\ found' = [found EXCEPT ![s] = {}]
            /\ metrics' = [metrics EXCEPT ![s] = Fresh(FamiliesOf(collector[s]))]
            /\ pc' = [pc EXCEPT ![s] = "loop"]
            /\ UNCHANGED yielded
       ELSE Fail(s)
    /\ UNCHANGED <<startVars, node_ids, utcoffset, collector, response, fetches,
                   harnessVars>>

\* The accumulator as one set kept on the collector would make it.
FoundAfterShared(s, id) == UNION {found[t] : t \in Scrapes} \cup {id}

\* The identifiers a turn of the stats loop leaves in found.
FoundAfter(s, id) == found[s] \cup {id}

\* One turn of for node in stats / for node in earnings.
Node(s) ==
    /\ pc[s] = "loop"
    /\ idx[s] < Len(Records(s))
    /\ LET n == Records(s)[idx[s] + 1]
           key == IdKey(collector[s])
       IN  IF (node_ids # {} \/ collector[s] = "StatsCollector")
              /\ ~ Has(n, {key})
           THEN Fail(s)
           ELSE IF Skipped(node_ids, n, key)
           THEN /\ idx' = [idx EXCEPT ![s] = @ + 1]
                /\ UNCHANGED <<pc, found, metrics, yielded>>
           ELSE IF AnyRaises(metrics[s], n)
           THEN Fail(s)
           ELSE /\ idx' = [idx EXCEPT ![s] = @ + 1]
                /\ found' = [found EXCEPT ![s] =
                                IF collector[s] = "StatsCollector"
                                THEN FoundAfter(s, n[key]) ELSE @]
                /\ metrics' = [metrics EXCEPT ![s] = AddAll(@, n)]
                /\ UNCHANGED <<pc, yielded>>
    /\ UNCHANGED <<startVars, node_ids, utcoffset, collector, response, fetches,
                   harnessVars>>

\* The stats loop is over: every not found node is added as inactive, and
\* the projection returns the tuple.
Inactive(s) ==
    /\ pc[s] = "loop"
    /\ collector[s] = "StatsCollector"
    /\ idx[s] = Len(Records(s))
    /\ \E order \in Orders(Unmatched(node_ids, found[s])) :
          metrics' = [metrics EXCEPT ![s] = AddInactive(@, order)]
    /\ pc' = [pc EXCEPT ![s] = "yield"]
    /\ UNCHANGED <<startVars, node_ids, utcoffset, collector, response, fetches, idx,
                   found, yielded, harnessVars>>

\* The earnings loop is over: the projection returns the tuple.
EarningsReturn(s) ==
    /\ pc[s] = "loop"
    /\ collector[s] = "EarningsAndRetrievalsCollector"
    /\ idx[s] = Len(Records(s))
    /\ pc' = [pc EXCEPT ![s] = "yield"]
    /\ UNCHANGED <<startVars, node_ids, utcoffset, collector, response, fetches, idx,
                   found, metrics, yielded, harnessVars>>

\* requirements = r.json(); the whole of _node_requirements_metrics.
RequirementsProject(s) ==
    /\ pc[s] = "fetched"
    /\ collector[s] = "RequirementsCollector"
    /\ IF /\ response[s].parses
          /\ ~ AnyRaises(Fresh(RequirementsFamilies), response[s].value)
       THEN /\ metrics' = [metrics EXCEPT ![s] =
                  AddAll(Fresh(RequirementsFamilies), response[s].value)]
            /\ pc' = [pc EXCEPT ![s] = "yield"]
            /\ UNCHANGED <<idx, found, yielded>>
       ELSE Fail(s)
    /\ UNCHANGED <<startVars, node_ids, utcoffset, collector, response, fetches,
                   harnessVars>>

\* for m in <the tuple>: yield m -- the next family reaches the caller; after
\* the last one the generator is exhausted.
Yield(s) ==
    /\ pc[s] = "yield"
    /\ yielded' = [yielded EXCEPT ![s] = @ + 1]
    /\ pc' = [pc EXCEPT ![s] =
                 IF yielded[s] + 1 = Len(metrics[s]) THEN "done" ELSE "yield"]
    /\ UNCHANGED <<startVars, node_ids, utcoffset, collector, response, fetches, idx,
                   found, metrics, harnessVars>>

\* The caller's loop runs the generator to exhaustion.  The yields touch
\* nothing but the scrape's own state, so they are taken as one step.
Drain(s) ==
    /\ pc[s] = "yield"
    /\ yielded' = [yielded EXCEPT ![s] = Len(metrics[s])]
    /\ pc' = [pc EXCEPT ![s] = "done"]
    /\ UNCHANGED <<startVars, node_ids, utcoffset, collector, response, fetches, idx,
                   found, metrics, harnessVars>>

\* The families the caller of scrape s has received so far.
Delivered(s) == SubSeq(metrics[s], 1, yielded[s])

\* The scrape is answered (or has failed): its generator and everything
\* local to it are dropped.
Finish(s) ==
    /\ pc[s] \in {"done", "failed"}
    /\ pc' = [pc EXCEPT ![s] = "idle"]
    /\ collector' = [collector EXCEPT ![s] = ""]
    /\ response' = [response EXCEPT ![s] = Empty]
    /\ fetches' = [fetches EXCEPT ![s] = 0]
    /\ idx' = [idx EXCEPT ![s] = 0]
    /\ found' = [found EXCEPT ![s] = {}]
    /\ metrics' = [metrics EXCEPT ![s] = <<>>]
    /\ yielded' = [yielded EXCEPT ![s] = 0]
    /\ UNCHANGED <<startVars, node_ids, utcoffset, harnessVars>>

(***************************************************************************)
(* Spec: the three registered collectors, scraped one scrape at a time.    *)
(***************************************************************************)
Init ==
    /\ node_ids \in SUBSET Ids
    /\ Serving(node_ids)
    /\ utcoffset = 0
    /\ NoScrape
    /\ NoHarness

\* No other scrape is in flight.
Alone(s) == \A t \in Scrapes \ {s} : pc[t] = "idle"

Next ==
    \/ \E s \in Scrapes : Alone(s) /\ StatsFetch(s)
    \/ \E s \in Scrapes : Alone(s) /\ EarningsFetch(s)
    \/ \E s \in Scrapes : Alone(s) /\ RequirementsFetch(s)
    \/ \E s \in Scrapes : Decode(s)
    \/ \E s \in Scrapes : Node(s)
    \/ \E s \in Scrapes : Inactive(s)
    \/ \E s \in Scrapes : EarningsReturn(s)
    \/ \E s \in Scrapes : RequirementsProject(s)
    \/ \E s \in Scrapes : Yield(s)
    \/ \E s \in Scrapes : Finish(s)

Spec == Init /\ [][Next]_vars

(***************************************************************************)
(* SpecStartup: __main__ from its first statement to the serving process.  *)
(***************************************************************************)
\* The lines a node-identifier file may hold: an identifier or nothing,
\* with or without blanks around it, and the newline.
Lines ==
    {lead \o id \o trail : lead \in {<<>>, <<32>>}, id \in Ids \cup {<<>>},
                           trail \in {<<10>>, <<32, 10>>}}

Environs ==
    {Empty, [k \in {EnvName} |-> ""], [k \in {EnvName} |-> NodesPath]}

FileSystems ==
    {Empty} \cup {[p \in {NodesPath} |-> f] : f \in SeqsUpTo(Lines, MaxLines)}

InitStartup ==
    /\ node_ids = {}
    /\ utcoffset = 0
    /\ NoScrape
    /\ NoHarness
    /\ environ \in Environs
    /\ files \in FileSystems
    /\ main = "start"

\* nodes_file = os.environ.get(...); if nodes_file: with open(nodes_file)
\* as f: node_ids = [line.strip() for line in f].  open raises when the
\* path names no file, and nothing catches it: the process ends there.
ReadNodesFile ==
    /\ main = "start"
    /\ IF EnvName \notin DOMAIN environ \/ environ[EnvName] = ""
          THEN main' = "read" /\ UNCHANGED node_ids
       ELSE IF environ[EnvName] \notin DOMAIN files
          THEN main' = "error" /\ UNCHANGED node_ids
       ELSE /\ main' = "read"
            /\ node_ids' = ReadLines(files[environ[EnvName]])
    /\ UNCHANGED <<environ, files, utcoffset, scrapeVars, harnessVars>>

\* REGISTRY.register of the three collectors; start_http_server(9000)
Register ==
    /\ main = "read"
    /\ main' = "serving"
    /\ UNCHANGED <<environ, files, node_ids, utcoffset, scrapeVars,
                   harnessVars>>

NextStartup == ReadNodesFile \/ Register

SpecStartup == InitStartup /\ [][NextStartup]_vars

(***************************************************************************)
(* SpecConcurrent: scrapes of the stats collector served by concurrent     *)
(* threads of the HTTP server, each running its own collect generator.     *)
(***************************************************************************)
\* The nodes the endpoint reports here, and the allow-lists over them.
ConcurrentIds == {MkId(1), MkId(2)}

InitConcurrent ==
    /\ node_ids \in SUBSET ConcurrentIds
    /\ Serving(node_ids)
    /\ utcoffset = 0
    /\ NoScrape
    /\ NoHarness

\* What the stats endpoint answers here: lists over the first two nodes.
ConcurrentResponses ==
    {Response(200, TRUE, [nodes |-> l]) :
        l \in {<<>>, <<BaseNode(MkId(1))>>, <<BaseNode(MkId(2))>>,
               <<BaseNode(MkId(1)), BaseNode(MkId(2))>>}}

ConcurrentFetch(s) == Fetch(s, "StatsCollector", ConcurrentResponses)

NextConcurrent ==
    \/ \E s \in Scrapes : ConcurrentFetch(s)
    \/ \E s \in Scrapes : Decode(s)
    \/ \E s \in Scrapes : Node(s)
    \/ \E s \in Scrapes : Inactive(s)
    \/ \E s \in Scrapes : Drain(s)
    \/ \E s \in Scrapes : Finish(s)

SpecConcurrent == InitConcurrent /\ [][NextConcurrent]_vars

(***************************************************************************)
(* Properties of the fan-out families, under SpecFamilies.                 *)
(***************************************************************************)
HarnessTtfb == GetSub(node, "ttfbStats")

QuantileFields == <<"p1_1h", "p5_1h", "p50_1h", "p95_1h", "p99_1h">>

QuantileLabels == <<"0.01", "0.05", "0.5", "0.95", "0.99">>

\* The length of the longest prefix of the quantile fields all present.
PrefixPresent ==
    Cardinality({i \in 1..Len(QuantileFields) :
                    \A j \in 1..i : QuantileFields[j] \in DOMAIN HarnessTtfb})

\* C3: NodeResponseDurationMetric.add emits quantile series for exactly the
\* longest prefix of (0.01, 0.05, 0.5, 0.95, 0.99) whose fields are all
\* present in ttfbStats, in that order, each with the field's value; it
\* emits nothing past the first missing field, and nothing when the
\* sub-record is absent.
QuantilePrefixEmitted ==
    family = "NodeResponseDurationMetric" =>
        /\ ~ samples.err
        /\ Len(samples.samples) = PrefixPresent
        /\ \A i \in 1..PrefixPresent :
              /\ samples.samples[i].labels =
                    [id |-> node.id, quantile |-> QuantileLabels[i]]
              /\ samples.samples[i].value = HarnessTtfb[QuantileFields[i]]

\* p95_1h alone is missing: three series, none for 0.99.
QuantileShortCircuitSeen ==
    /\ family = "NodeResponseDurationMetric"
    /\ DOMAIN HarnessTtfb = TtfbKeys \ {"p95_1h"}
    /\ Len(samples.samples) = 3

RequestResults == <<"ok", "ok_hit", "error", "ok_slow_hit">>

RequestFieldOf ==
    <<"reqs_served_1h", "hits_1h", "errors_1h", "slow_hits_1h">>

\* C4: NodeRequestsMetric.add emits either the four series ok, ok_hit,
\* error, ok_slow_hit (exactly when the four count fields are all present
\* in ttfbStats) or none; never one, two or three.
RequestsAllOrNothing ==
    family = "NodeRequestsMetric" =>
        /\ ~ samples.err
        /\ Len(samples.samples) \in {0, 4}
        /\ Len(samples.samples) = 4 <=>
              \A i \in 1..4 : RequestFieldOf[i] \in DOMAIN HarnessTtfb
        /\ Len(samples.samples) = 4 =>
              {<<samples.samples[i].labels, samples.samples[i].value>> :
                  i \in 1..4}
              = {<<[id |-> node.id, result |-> RequestResults[i]],
                   HarnessTtfb[RequestFieldOf[i]]>> : i \in 1..4}

\* Three of the four counts are present and nothing was emitted.
RequestsThreeOfFourSeen ==
    /\ family = "NodeRequestsMetric"
    /\ Cardinality(DOMAIN HarnessTtfb \cap RequestFields) = 3
    /\ samples.samples = <<>>

HarnessFailures == GetSub(node, "HealthCheckFailures")

FailuresWellFormed ==
    \A i \in 1..Len(HarnessFailures) : "error" \in DOMAIN HarnessFailures[i]

FailureKinds == {HarnessFailures[i].error : i \in 1..Len(HarnessFailures)}

FailuresOfKind(k) ==
    Cardinality({i \in 1..Len(HarnessFailures) : HarnessFailures[i].error = k})

RECURSIVE SumValues(_)
SumValues(ss) == IF ss = <<>> THEN 0 ELSE Head(ss).value + SumValues(Tail(ss))

\* C5: NodeHealthCheckFailuresMetric.add emits, for an absent or empty
\* failure list, exactly one series of value 0 labelled with the id alone;
\* for a non-empty list of events carrying an error kind, one series per
\* distinct kind whose value is the number of events of that kind, the
\* values summing to the length of the list, and no zero-valued series.
HealthFailuresGrouped ==
    (family = "NodeHealthCheckFailuresMetric" /\ FailuresWellFormed) =>
        /\ ~ samples.err
        /\ HarnessFailures = <<>> =>
              samples.samples = <<[labels |-> [id |-> node.id], value |-> 0]>>
        /\ HarnessFailures # <<>> =>
              /\ Len(samples.samples) = Cardinality(FailureKinds)
              /\ \A k \in FailureKinds :
                    \E i \in 1..Len(samples.samples) :
                        /\ samples.samples[i].labels =
                              [id |-> node.id, error |-> k]
                        /\ samples.samples[i].value = FailuresOfKind(k)
              /\ SumValues(samples.samples) = Len(HarnessFailures)
              /\ \A i \in 1..Len(samples.samples) :
                    samples.samples[i].value > 0

\* timeout, timeout, dns gives {error=timeout} 2 and {error=dns} 1.
HealthFailuresGroupedSeen ==
    /\ family = "NodeHealthCheckFailuresMetric"
    /\ HarnessFailures =
          <<[error |-> "timeout"], [error |-> "timeout"], [error |-> "dns"]>>
    /\ Len(samples.samples) = 2
    /\ samples.samples[1].value = 2
    /\ samples.samples[2].value = 1

HarnessTable == IF family = "NodeBiasMetric" THEN _BIASES ELSE _PENALTIES

\* The table entries whose key holds a number in the record's biases object.
NumericEntries ==
    {i \in 1..Len(HarnessTable) :
        /\ HarnessTable[i][1] \in DOMAIN node.biases
        /\ node.biases[HarnessTable[i][1]] \in Nat}

\* C6: NodeBiasMetric.add and NodePenaltyMetric.add produce series only for
\* the keys of their tables (5 bias keys, 7 penalty keys): one series,
\* labelled with the translated kind and carrying the value, per table key
\* holding a number in the record, 0 included; a missing key and a key
\* outside the table produce none.
KindFanOutByTable ==
    family \in {"NodeBiasMetric", "NodePenaltyMetric"} =>
        /\ Len(_BIASES) = 5 /\ Len(_PENALTIES) = 7
        /\ ~ samples.err
        /\ Len(samples.samples) = Cardinality(NumericEntries)
        /\ \A i \in NumericEntries :
              \E j \in 1..Len(samples.samples) :
                  /\ samples.samples[j].labels =
                        [id |-> node.id, kind |-> HarnessTable[i][2]]
                  /\ samples.samples[j].value =
                        node.biases[HarnessTable[i][1]]
        /\ \A j \in 1..Len(samples.samples) :
              \E i \in NumericEntries :
                  samples.samples[j].labels.kind = HarnessTable[i][2]

\* A bias of 0 next to a key outside the table: one series, of value 0.
ZeroBiasSeen ==
    /\ family = "NodeBiasMetric"
    /\ DOMAIN node.biases = {"ageBias", "unknownBias"}
    /\ node.biases["ageBias"] = 0
    /\ node.biases["unknownBias"] = 1
    /\ samples.samples =
          <<[labels |-> [id |-> node.id, kind |-> "age"], value |-> 0]>>

(***************************************************************************)
(* Properties of the collectors, under Spec and SpecConcurrent.            *)
(***************************************************************************)
\* The projection of scrape s returned: its tuple is the snapshot.
Returned(s) == pc[s] \in {"yield", "done"}

RecordIds(s) ==
    {Records(s)[i][IdKey(collector[s])] : i \in 1..Len(Records(s))}

\* An info sample that carries none of a live record's attributes.
Synthesized(x) == "ip_address" \notin DOMAIN x.labels

\* The synthesized series of identifier i.
InactiveSeries(i) ==
    [labels |-> [id |-> i, id_short |-> SubSeq(i, 1, Min(8, Len(i))),
                 state |-> "inactive"],
     value |-> 1]

SynthesizedFor(s, i) ==
    {j \in 1..Len(metrics[s][1].samples) :
        /\ Synthesized(metrics[s][1].samples[j])
        /\ metrics[s][1].samples[j].labels.id = i}

\* C1: a snapshot of the stats collector holds exactly one synthesized info
\* series for each identifier of the allow-list that is the id of no fetched
\* record, and none for any other identifier (so none at all under an empty
\* allow-list); each has state "inactive" and, besides its id and short id,
\* no other attribute.
InactiveSynthesis ==
    \A s \in Scrapes :
        (collector[s] = "StatsCollector" /\ Returned(s)) =>
            /\ \A i \in Ids :
                  Cardinality(SynthesizedFor(s, i)) =
                      IF i \in node_ids /\ i \notin RecordIds(s) THEN 1 ELSE 0
            /\ \A j \in 1..Len(metrics[s][1].samples) :
                  Synthesized(metrics[s][1].samples[j]) =>
                      metrics[s][1].samples[j] =
                          InactiveSeries(metrics[s][1].samples[j].labels.id)

\* Allow-list of all identifiers, only the first fetched: one inactive series
\* for each of the others.
InactiveSynthesisSeen ==
    \E s \in Scrapes :
        /\ collector[s] = "StatsCollector"
        /\ pc[s] = "done"
        /\ node_ids = Ids
        /\ RecordIds(s) = {MkId(1)}
        /\ \A i \in Ids \ {MkId(1)} : Cardinality(SynthesizedFor(s, i)) = 1
        /\ Len(metrics[s][1].samples) = Len(Records(s)) + NumIds - 1

\* What family f holds once every record of recs that the allow-list admits
\* was handed to it, in order.
RECURSIVE Projected(_, _, _)
Projected(f, recs, key) ==
    IF recs = <<>> THEN <<>>
    ELSE (IF node_ids = {} \/ Head(recs)[key] \in node_ids
          THEN Add(f, Head(recs)).samples ELSE <<>>)
         \o Projected(f, Tail(recs), key)

\* The samples of the j-th family of scrape s that come from fetched
\* records: all of them, but for the info family of the stats collector.
FromRecords(s, j) ==
    IF collector[s] = "StatsCollector" /\ j = 1
    THEN SelectSeq(metrics[s][j].samples, LAMBDA x : ~ Synthesized(x))
    ELSE metrics[s][j].samples

\* C2: in both node-keyed collectors a fetched record is projected if and
\* only if the allow-list is empty or contains its identifier: every family
\* of a snapshot holds, of the fetched records, the series of exactly the
\* admitted ones, and under a non-empty allow-list every series carries an
\* id of the allow-list.
FilterByAllowList ==
    \A s \in Scrapes :
        (collector[s] \in {"StatsCollector", "EarningsAndRetrievalsCollector"}
         /\ Returned(s)) =>
            \A j \in 1..Len(metrics[s]) :
                /\ FromRecords(s, j) =
                      Projected(metrics[s][j].name, Records(s),
                                IdKey(collector[s]))
                /\ node_ids # {} =>
                      \A k \in 1..Len(metrics[s][j].samples) :
                          metrics[s][j].samples[k].labels.id \in node_ids

\* An earnings snapshot under an allow-list that admits the second of two
\* fetched records only.
FilterByAllowListSeen ==
    \E s \in Scrapes :
        /\ collector[s] = "EarningsAndRetrievalsCollector"
        /\ pc[s] = "done"
        /\ node_ids = {MkId(2)}
        /\ Len(Records(s)) = 2
        /\ Records(s)[1].nodeId = MkId(1)
        /\ Records(s)[2].nodeId = MkId(2)
        /\ \A j \in 1..Len(metrics[s]) : Len(metrics[s][j].samples) = 1

\* The projection of scrape s has started and ended in an exception.
ProjectionFailed(s) == pc[s] = "failed" /\ metrics[s] # <<>>

Admitted(n, key) == node_ids = {} \/ n[key] \in node_ids

EarningsFieldOf ==
    <<"payoutStatus", "filAmount", "uptimeCompletion", "numRequests",
      "numBytes">>

\* The series of one optional field: one per admitted record that holds a
\* value for it.
RECURSIVE OptionalSeries(_, _)
OptionalSeries(recs, k) ==
    IF recs = <<>> THEN <<>>
    ELSE (IF /\ Admitted(Head(recs), "nodeId")
             /\ k \in DOMAIN Head(recs)
             /\ Head(recs)[k] # None
          THEN <<[labels |-> [id |-> Head(recs).nodeId],
                  value |-> Head(recs)[k]]>>
          ELSE <<>>)
         \o OptionalSeries(Tail(recs), k)

RECURSIVE PayoutSeries(_)
PayoutSeries(recs) ==
    IF recs = <<>> THEN <<>>
    ELSE (IF Admitted(Head(recs), "nodeId")
          THEN <<[labels |-> [id |-> Head(recs).nodeId,
                              status |-> Head(recs).payoutStatus],
                  value |-> 1]>>
          ELSE <<>>)
         \o PayoutSeries(Tail(recs))

RequirementsFieldOf ==
    <<"minCPUCores", "minMemoryGB", "minUploadSpeedMbps",
      "minDownloadSpeedMbps", "minDiskGB", "lastVersion", "minVersion">>

\* C8: the requirements collector reaches its yields only with all seven
\* fields present, each of its seven families then holding exactly one
\* unlabelled series of the field's value; with a field missing the scrape
\* fails and nothing has been yielded to the caller.
RequirementsAllOrError ==
    \A s \in Scrapes :
        collector[s] = "RequirementsCollector" =>
            /\ Returned(s) =>
                  /\ Len(metrics[s]) = 7
                  /\ \A j \in 1..7 :
                        /\ RequirementsFieldOf[j] \in DOMAIN response[s].value
                        /\ metrics[s][j].samples =
                              <<[labels |-> <<>>,
                                 value |-> response[s].value[
                                               RequirementsFieldOf[j]]]>>
            /\ pc[s] = "failed" => Delivered(s) = <<>>
            /\ (/\ pc[s] # "idle"
                /\ DOMAIN response[s] # {}
                /\ response[s].parses
                /\ \E j \in 1..7 :
                      RequirementsFieldOf[j] \notin DOMAIN response[s].value) =>
                  pc[s] \in {"fetched", "failed"}

\* Only the last family's field is missing: the scrape failed with nothing
\* yielded.
RequirementsErrorSeen ==
    \E s \in Scrapes :
        /\ collector[s] = "RequirementsCollector"
        /\ pc[s] = "failed"
        /\ response[s] # Empty
        /\ response[s].parses
        /\ DOMAIN response[s].value = RequirementsFields \ {"minVersion"}
        /\ yielded[s] = 0

\* The identifiers of the first n records of scrape s that the allow-list
\* admits.
ObservedUpTo(s, n) ==
    {Records(s)[i].id : i \in {k \in 1..n : Admitted(Records(s)[k], "id")}}

\* The snapshot of scrape s is the one its own record list and the
\* allow-list determine: every family holds the series of the admitted
\* records, and the info family after them one inactive series for each
\* allow-listed identifier that no record of the list carries.
OwnSnapshot(s) ==
    \A j \in 1..Len(metrics[s]) :
        LET own == Projected(metrics[s][j].name, Records(s), "id")
            got == metrics[s][j].samples
        IN  IF j > 1 THEN got = own
            ELSE /\ Len(got) = Len(own) + Cardinality(node_ids \ RecordIds(s))
                 /\ SubSeq(got, 1, Len(own)) = own
                 /\ {got[k] : k \in (Len(own) + 1)..Len(got)} =
                       {InactiveSeries(i) : i \in node_ids \ RecordIds(s)}

\* The series of a snapshot, family by family, without their order.
SeriesSet(ms) == [j \in 1..Len(ms) |-> Range(ms[j].samples)]

ReportedInactive(s, i) ==
    \E k \in 1..Len(metrics[s][1].samples) :
        metrics[s][1].samples[k] = InactiveSeries(i)

\* C9 as stated, in its last part: an identifier observed by one scrape and
\* absent from the list of another is reported inactive by the other.
ObservedElsewhereReportedInactive ==
    \A s, t \in Scrapes :
        (s # t /\ Returned(t)) =>
            \A i \in found[s] \ RecordIds(t) : ReportedInactive(t, i)

\* C9, amended: under any interleaving of scrapes of the stats collector a
\* scrape's snapshot depends on its own record list and the allow-list only;
\* two scrapes of one list return the same series; the accumulator and the
\* families are empty when a scrape's loop starts and the accumulator holds
\* the scrape's own admitted identifiers only; and an identifier of a
\* non-empty allow-list that one scrape observed and the list of another
\* lacks is reported inactive by the other, while under an empty allow-list
\* nothing is reported inactive.
ScrapeLocalState ==
    \A s \in Scrapes :
        /\ pc[s] = "loop" =>
              /\ found[s] = ObservedUpTo(s, idx[s])
              /\ idx[s] = 0 =>
                    \A j \in 1..Len(metrics[s]) : metrics[s][j].samples = <<>>
        /\ Returned(s) =>
              /\ OwnSnapshot(s)
              /\ \A t \in Scrapes \ {s} :
                    /\ (Returned(t) /\ Records(t) = Records(s)) =>
                          SeriesSet(metrics[t]) = SeriesSet(metrics[s])
                    /\ \A i \in (found[t] \cap node_ids) \ RecordIds(s) :
                          ReportedInactive(s, i)
                    /\ node_ids = {} =>
                          \A i \in found[t] : ~ ReportedInactive(s, i)

\* One scrape is in its loop and has observed the first node, while another,
\* whose list lacks that node, has returned and reports it inactive.
ScrapeLocalStateSeen ==
    \E s, t \in Scrapes :
        /\ pc[s] = "loop"
        /\ found[s] = {MkId(1)}
        /\ pc[t] = "done"
        /\ MkId(1) \in node_ids
        /\ MkId(1) \notin RecordIds(t)
        /\ ReportedInactive(t, MkId(1))

\* The fetch of scrape s failed upstream: requests.get raised, or the
\* response is not a success, or its body is no JSON.
UpstreamFailed(s) ==
    /\ pc[s] # "idle"
    /\ \/ DOMAIN response[s] = {}
       \/ response[s].status \notin 200..299
       \/ ~ response[s].parses

\* C10: an upstream failure (network error, non-2xx response, malformed
\* JSON) fails the scrape of the collector, with one fetch attempt and no
\* series delivered to the caller.
UpstreamFailurePropagates ==
    \A s \in Scrapes :
        /\ fetches[s] <= 1
        /\ UpstreamFailed(s) =>
              /\ pc[s] # "done"
              /\ \A j \in 1..yielded[s] : metrics[s][j].samples = <<>>

(***************************************************************************)
(* Timestamp conversion (SpecFamilies).                                    *)
(***************************************************************************)
\* The families that convert a timestamp field, and the field each reads.
TimestampField(f) ==
    IF f = "NodeLastRegistrationMetric" THEN "lastRegistration"
    ELSE "createdAt"

TimestampConverted ==
    /\ family \in {"NodeLastRegistrationMetric", "NodeCreationMetric"}
    /\ ~ samples.err

\* 1672531200000 in the two limbs of StrToTimestampAt.
Epoch2023 == [giga |-> 1672, rest |-> 531200000]

\* C11: the value a timestamp family emits is the epoch-milliseconds value
\* of the UTC instant the string names: it is what the conversion gives
\* under every local timezone offset of the process, and
\* "2023-01-01T00:00:00.000Z" gives 1672531200000.
TimestampIsUtcInstant ==
    TimestampConverted =>
        LET v == node[TimestampField(family)]
            ms == samples.samples[1].value
        IN  /\ \A off \in UtcOffsets : ms = StrToTimestampAt(v, off)
            /\ v = Timestamp => ms = Epoch2023

(***************************************************************************)
(* Startup (SpecStartup).                                                  *)
(***************************************************************************)
\* The variable is unset, or the path it holds names no file.
NoNodesFile ==
    \/ EnvName \notin DOMAIN environ
    \/ environ[EnvName] \notin DOMAIN files

\* No record is skipped for its identifier.
AllNodesIncluded ==
    \A id \in Ids : \A key \in {"id", "nodeId"} :
        ~ Skipped(node_ids, [k \in {key} |-> id], key)

\* C12: once __main__ is past reading the node-identifier file, if the
\* variable was unset or the file it names is absent, startup has not ended
\* in an error, the allow-list is empty and all nodes are included.
StartupToleratesAbsentFile ==
    (main # "start" /\ NoNodesFile) =>
        /\ main # "error"
        /\ node_ids = {}
        /\ AllNodesIncluded

====
